---- MODULE Spec2Model ----
(***************************************************************************)
(* Contact-handling core of the discrete-rod simulator (src/src/imc.py):   *)
(* class IMC, its edge-pair table, collision detector, assembler,          *)
(* stiffness controller and the request/reply loop start_server.           *)
(*                                                                         *)
(* Lengths are integers in units of 0.0005, so that the controller's       *)
(* thresholds 0.001, 0.002, 0.004 and 0.005 are 2, 4, 8 and 10: the length *)
(* k is the float64 nearest the decimal k * 0.0005.                        *)
(* Arrays are functions on 0..n-1, as the code indexes them.               *)
(***************************************************************************)
EXTENDS Integers, Sequences, FiniteSets, TLC

\* ---------------------------------------------------------------- bounds
MaxNodes == 6        \* num_nodes ranges over 2..MaxNodes
MaxRequests == 2     \* requests the solver sends in one run
StiffSpan == 13      \* SpecStiff: distances range over contact_len +- StiffSpan
MaxTableEdges == 10  \* tables are built for 1..MaxTableEdges edges

\* ------------------------------------------------------ startup parameters
ia == 2                  \* self.ia
S == 2                   \* params['S'], the normalisation scale
param_radius == 10       \* params['radius'] (0.005)
collision_limit == 20    \* params['collision_limit'] (0.01)
mu_k == 1                \* params['mu_k']

radius == param_radius * S
contact_len == radius * 2

\* thresholds of _update_contact_stiffness, in units of 0.0005
T005 == 10
T004 == 8
T002 == 4
T001 == 2
\* factors of _update_contact_stiffness, in thousandths
F0999 == 999
F1010 == 1010
F1005 == 1005
F1003 == 1003
F1001 == 1001

\* ------------------------------------------ float64 comparisons of lengths
(* The code compares a length with a sum or difference of two others, and  *)
(* the float64 sum is rounded.  Lengths a unit apart stay in order under   *)
(* any rounding, so rounding decides the comparison only where the         *)
(* decimals are equal.  round_off(a, b) is the side of the float64 nearest *)
(* the decimal a + b on which the float64 a + b falls, for the sums the    *)
(* code forms at a band edge with the startup parameters above:            *)
(*     0.03 - 0.02  = 0.009999999999999998   (below 0.01)                  *)
(*     0.02 - 0.002 = 0.018000000000000002   (above 0.018)                 *)
(*     0.02 + 0.005 = 0.025,  0.02 - 0.004 = 0.016,  0.02 - 0.001 = 0.019  *)
round_off(a, b) ==
    IF a = contact_len + collision_limit /\ b = -contact_len THEN -1
    ELSE IF a = contact_len /\ b = -T002 THEN 1
    ELSE 0

\* a + b < c in float64
sum_lt(a, b, c) == a + b < c \/ (a + b = c /\ round_off(a, b) < 0)

\* c < a + b in float64
lt_sum(c, a, b) == c < a + b \/ (c = a + b /\ round_off(a, b) > 0)

\* c > a + b in float64
gt_sum(c, a, b) == c > a + b \/ (c = a + b /\ round_off(a, b) < 0)

Max(a, b) == IF a > b THEN a ELSE b
Min(a, b) == IF a < b THEN a ELSE b
Abs(a) == IF a < 0 THEN -a ELSE a

\* ------------------------------------------------------------ float values
(* A float64 is an integer: PInf, NInf and NaN stand for +inf, -inf and    *)
(* nan, every integer strictly between NInf and PInf for itself.           *)
PInf == 10^9
NInf == -(10^9)
NaN == 10^9 + 1

isnan(a) == a = NaN
isinf(a) == a = PInf \/ a = NInf

\* a + b
fadd(a, b) ==
    IF a = NaN \/ b = NaN THEN NaN
    ELSE IF a = PInf THEN (IF b = NInf THEN NaN ELSE PInf)
    ELSE IF a = NInf THEN (IF b = PInf THEN NaN ELSE NInf)
    ELSE IF b = PInf \/ b = NInf THEN b
    ELSE a + b

fneg(a) == IF a = NaN THEN NaN ELSE -a

fsub(a, b) == fadd(a, fneg(b))

Sgn(x) == IF x > 0 THEN 1 ELSE IF x < 0 THEN -1 ELSE 0

\* a * b
fmul(a, b) ==
    IF a = NaN \/ b = NaN THEN NaN
    ELSE IF isinf(a) \/ isinf(b)
         THEN (IF Sgn(a) * Sgn(b) = 0 THEN NaN
               ELSE IF Sgn(a) * Sgn(b) > 0 THEN PInf ELSE NInf)
    ELSE a * b

\* 0.50 * a (the finite values this is applied to are even)
fhalf(a) == IF a = NaN \/ isinf(a) THEN a ELSE a \div 2

\* a / b (the finite quotients taken are exact)
fdiv(a, b) ==
    IF a = NaN \/ b = NaN THEN NaN
    ELSE IF isinf(b) THEN (IF isinf(a) THEN NaN ELSE 0)
    ELSE IF b = 0 THEN (IF a = 0 THEN NaN ELSE IF a > 0 THEN PInf ELSE NInf)
    ELSE IF isinf(a) THEN (IF Sgn(a) * Sgn(b) > 0 THEN PInf ELSE NInf)
    ELSE (Abs(a) \div Abs(b)) * Sgn(a) * Sgn(b)

RECURSIVE ISqrtBetween(_, _, _)
ISqrtBetween(x, lo, hi) ==
    IF lo >= hi THEN lo
    ELSE LET mid == (lo + hi + 1) \div 2
         IN IF mid * mid <= x THEN ISqrtBetween(x, mid, hi)
            ELSE ISqrtBetween(x, lo, mid - 1)

\* np.sqrt (the finite arguments taken are perfect squares)
fsqrt(a) ==
    IF a = NaN \/ a = PInf THEN a
    ELSE IF a < 0 THEN NaN
    ELSE ISqrtBetween(a, 0, Min(a, 31622))

RECURSIVE FoldAdd(_, _, _)
\* sum of f[lo..hi]
FoldAdd(f, lo, hi) == IF lo > hi THEN 0 ELSE fadd(f[lo], FoldAdd(f, lo + 1, hi))

\* ------------------------------------------------------------------ arrays
ArrLen(a) == Cardinality(DOMAIN a)
SeqToArr(s) == [r \in 0..(Len(s) - 1) |-> s[r + 1]]
\* the slice a[lo:] of a one-dimensional array, as an array
SliceFrom(a, lo) == [r \in 0..(ArrLen(a) - lo - 1) |-> a[lo + r]]
\* the slice a[lo:hi]
Slice(a, lo, hi) == [r \in 0..(hi - lo - 1) |-> a[lo + r]]

\* Python's normalisation of a slice bound x for an array of n rows
PyBound(x, n) == IF x < 0 THEN Max(x + n, 0) ELSE Min(x, n)
\* the rows a Python slice [start:stop] of an n-row array selects
PySliceRows(start, stop, n) == PyBound(start, n)..(PyBound(stop, n) - 1)

RECURSIVE ArrMin(_, _)
\* the least of a[r..], for a non-empty array
ArrMin(a, r) ==
    IF r = ArrLen(a) - 1 THEN a[r] ELSE Min(a[r], ArrMin(a, r + 1))

\* ------------------------------------------------- IMC.__init__, lines 46-66
RECURSIVE CountRow_short_window(_, _, _)
\* the count with the skipped window one index short at its lower end
CountRow_short_window(i, j, ne) ==
    IF j >= ne THEN 0
    ELSE (IF i \in (j - ia + 1)..(j + ia) THEN 0 ELSE 1) + CountRow_short_window(i, j + 1, ne)

RECURSIVE CountRow(_, _, _)
\* the inner loop of lines 52-54, from j on
CountRow(i, j, ne) ==
    IF j >= ne THEN 0
    ELSE (IF i \in (j - ia)..(j + ia) THEN 0 ELSE 1) + CountRow(i, j + 1, ne)

RECURSIVE CountFrom(_, _)
\* the outer loop of lines 51-54, from i on
CountFrom(i, ne) == IF i >= ne THEN 0 ELSE CountRow(i, i, ne) + CountFrom(i + 1, ne)

num_edge_combos(ne) == CountFrom(0, ne)

\* self.indices[lo:] of np.arange(0, ne)
indices_from(lo, ne) == [r \in 0..(ne - Min(lo, ne) - 1) |-> Min(lo, ne) + r]

\* the step of the fill loop, lines 63-66: the table after row i, and the
\* slice assignments edge_ids[ri:ri+add, 0] = i and
\* edge_ids[ri:ri+add, 1] = indices[i+ia+1:]
FillStep(tab, i, ri, ne) ==
    LET add == ne - i - (ia + 1)
        n == ArrLen(tab)
        rows == PySliceRows(ri, ri + add, n)
        rhs == indices_from(i + ia + 1, ne)
        lo == PyBound(ri, n)
    IN [r \in 0..(n - 1) |->
            IF r \in rows
            THEN <<i, IF ArrLen(rhs) = 1 THEN rhs[0] ELSE rhs[r - lo]>>
            ELSE tab[r]]

RECURSIVE FillEdgeIds(_, _, _, _)
\* the fill loop of lines 61-66, from row i on
FillEdgeIds(tab, i, ri, ne) ==
    IF i >= ne THEN tab
    ELSE FillEdgeIds(FillStep(tab, i, ri, ne), i + 1, ri + (ne - i - (ia + 1)), ne)

\* self.edge_ids as __init__ leaves it
InitEdgeIds(ne) ==
    FillEdgeIds([r \in 0..(num_edge_combos(ne) - 1) |-> <<0, 0>>], 0, 0, ne)

\* --------------------------------------------------- geometry (imc_utils)
(* The segment-segment minimum distance primitive of imc_utils, for the    *)
(* positions the solver writes here: all nodes on the x axis, so a segment *)
(* is an interval and the distance is the gap between two intervals.       *)
interval_gap(a1, a2, b1, b2) ==
    Max(0, Max(Min(a1, a2), Min(b1, b2)) - Min(Max(a1, a2), Max(b1, b2)))

\* min_dist_vectorized, one row: combo is the 12 coordinates of two edges
min_dist(combo) == interval_gap(combo[0], combo[3], combo[6], combo[9])

min_dist_vectorized(edge_combos) ==
    [r \in DOMAIN edge_combos |-> min_dist(edge_combos[r])]

\* ------------------------------------ _jit_detect_collisions, lines 152-182
\* lines 159-160: edges[i] = node_data[3*i:(3*i)+6]
EdgesOf(node_data, ne) == [i \in 0..(ne - 1) |-> Slice(node_data, 3 * i, 3 * i + 6)]

\* lines 165-169, one pass of the loop over i
CombosStep(edge_combos, edges, i, ri, ne) ==
    LET add == ne - i - (ia + 1)
        n == ArrLen(edge_combos)
        rows == PySliceRows(ri, ri + add, n)
        rhs == SliceFrom(edges, Min(i + ia + 1, ne))
        lo == PyBound(ri, n)
    IN [r \in 0..(n - 1) |->
            IF r \in rows
            THEN [c \in 0..11 |->
                    IF c < 6 THEN edges[i][c]
                    ELSE (IF ArrLen(rhs) = 1 THEN rhs[0] ELSE rhs[r - lo])[c - 6]]
            ELSE edge_combos[r]]

RECURSIVE FillCombos(_, _, _, _, _)
FillCombos(edge_combos, edges, i, ri, ne) ==
    IF i >= ne THEN edge_combos
    ELSE FillCombos(CombosStep(edge_combos, edges, i, ri, ne), edges, i + 1,
                    ri + (ne - i - (ia + 1)), ne)

\* the filter on the decimal values, without the rounding of the difference
InLimit_decimal(d) == d - contact_len < collision_limit

\* line 175: the rows with minDs - contact_len < collision_limit
InLimit(d) == sum_lt(d, -contact_len, collision_limit)

RECURSIVE WhereRows(_, _)
\* np.where: the selected row numbers from r on, in increasing order
WhereRows(minDs, r) ==
    IF r >= ArrLen(minDs) THEN <<>>
    ELSE (IF InLimit(minDs[r]) THEN <<r>> ELSE <<>>) \o WhereRows(minDs, r + 1)

\* The detector: ok is FALSE when np.min raises on an empty table.
jit_detect_collisions(table, node_data, ne) ==
    LET edges == EdgesOf(node_data, ne)
        zeros == [r \in DOMAIN table |-> [c \in 0..11 |-> 0]]
        edge_combos == FillCombos(zeros, edges, 0, 0, ne)
        minDs == min_dist_vectorized(edge_combos)
        col_indices == WhereRows(minDs, 0)
    IN IF ArrLen(table) = 0
       THEN [ok |-> FALSE, f_edge_ids |-> <<>>, closest_distance |-> 0]
       ELSE [ok |-> TRUE,
             f_edge_ids |-> [r \in 0..(Len(col_indices) - 1) |-> table[col_indices[r + 1]]],
             closest_distance |-> ArrMin(minDs, 0)]

\* ----------------------------------- _jit_prepare_velocities, lines 189-200
jit_prepare_velocities(ids, velocity_data) ==
    [i \in DOMAIN ids |->
        [c \in 0..11 |->
            IF c < 6 THEN velocity_data[3 * ids[i][1] + c]
            ELSE velocity_data[3 * ids[i][2] + (c - 6)]]]

\* ---------------------------------------- _jit_prepare_edges, lines 205-219
prepare_combos(ids, node_data) ==
    [i \in DOMAIN ids |->
        [c \in 0..11 |->
            IF c < 6 THEN node_data[3 * ids[i][1] + c]
            ELSE node_data[3 * ids[i][2] + (c - 6)]]]

\* the distances of min_dist_f_out_vectorized are those of the same primitive
jit_prepare_edges(ids, node_data) ==
    LET edge_combos == prepare_combos(ids, node_data)
    IN [edge_combos |-> edge_combos,
        closest_distance |-> ArrMin(min_dist_vectorized(edge_combos), 0)]

\* ------------------------------------------- the loaded building blocks
(* The pickled gradient and Hessian providers are external artifacts and   *)
(* the chain rule only composes them, so the per-pair contact gradient     *)
(* dE_dx and contact Hessian d2E_dx2 are given here as one fixed pure      *)
(* function of the pair's coordinates: the two edge halves of the gradient *)
(* are opposite, the Hessian is symmetric, and both grow as the pair's     *)
(* distance shrinks.  The friction jacobian is given the same way.         *)
barrier(combo) == Max(0, contact_len + collision_limit - min_dist(combo)) \div 10 + 1

grad_shape == <<4, 6, 3, 8, 10, -3>>

\* dE_dx of one pair (lines 352-363 and 390-408)
contact_gradient(combo) ==
    [c \in 0..11 |->
        IF c < 6 THEN barrier(combo) * grad_shape[c + 1]
        ELSE -(barrier(combo) * grad_shape[c - 5])]

\* d2E_dx2 of one pair (lines 390-408)
contact_hessian(combo) ==
    [a \in 0..11 |-> [b \in 0..11 |-> barrier(combo) * (a + 1) * (b + 1)]]

\* ffr_jacobian of one pair (lines 411-419): the friction-jacobian provider
\* chain-ruled through the contact Hessian.  Its rows repeat as lines 306-309
\* write them, and it is undefined (nan) where the two edges have no
\* relative velocity.
friction_jacobian(edges_row, vel_row, mu) ==
    IF \A c \in 0..2 : vel_row[c] + vel_row[3 + c] = vel_row[6 + c] + vel_row[9 + c]
    THEN [a \in 0..11 |-> [b \in 0..11 |-> NaN]]
    ELSE [a \in 0..11 |-> [b \in 0..11 |->
            IF a < 6 THEN mu * ((a % 3) + 1 + b) ELSE -(mu * ((a % 3) + 1 + b))]]

\* --------------------------------------------------- _get_ffr, lines 102-148
\* a direction (xe - xs) / sqrt(((xe - xs)**2).sum()), lines 109-110
unit_tangent(xs, xe) ==
    LET d == [c \in 0..2 |-> xe[c] - xs[c]]
        len == fsqrt(d[0] * d[0] + d[1] * d[1] + d[2] * d[2])
    IN [c \in 0..2 |-> fdiv(d[c], len)]

fdot(a, b) == fadd(fadd(fmul(a[0], b[0]), fmul(a[1], b[1])), fmul(a[2], b[2]))

\* lines 129-134: +1, -1 or 0 by sign; a nan stays a nan
sign_of_dir(a) == IF a = NaN THEN NaN ELSE Sgn(a)

\* lines 139-146: the twelve entries from ffr1x, with ffr2x = -ffr1x
ffr_entries(ffr1x) ==
    [c \in 0..11 |->
        IF c < 6 THEN fhalf(ffr1x[c % 3]) ELSE fhalf(fneg(ffr1x[c % 3]))]

\* lines 136-141: ffr1, ffr2 and ffr1x = 0.50 * (ffr1 - ffr2)
ffr_directed(T1, T2, dir1, dir2, ffr_val) ==
    ffr_entries([c \in 0..2 |->
        fhalf(fsub(fmul(fmul(dir1, T1[c]), ffr_val), fmul(fmul(dir2, T2[c]), ffr_val)))])

\* lines 119-134: dir1 = sign(vr1 . T1), dir2 = sign(-vr1 . T2)
ffr_signed(T1, T2, vr1, ffr_val) ==
    ffr_directed(T1, T2, sign_of_dir(fdot(vr1, T1)),
                 sign_of_dir(fdot([c \in 0..2 |-> fneg(vr1[c])], T2)), ffr_val)

\* lines 115-117: vr1 = 0.5 * (v1s + v1e) - 0.5 * (v2s + v2e)
relative_velocity(vel_row) ==
    [c \in 0..2 |-> (vel_row[c] + vel_row[3 + c]) \div 2
                    - (vel_row[6 + c] + vel_row[9 + c]) \div 2]

\* line 112: fn = sqrt(((f1s + f1e)**2).sum())
normal_force(fsum) ==
    fsqrt(fadd(fadd(fmul(fsum[0], fsum[0]), fmul(fsum[1], fsum[1])), fmul(fsum[2], fsum[2])))

\* one row of _get_ffr
get_ffr_row(edges_row, vel_row, forces_row, mu) ==
    ffr_signed(unit_tangent(Slice(edges_row, 6, 9), Slice(edges_row, 9, 12)),
               unit_tangent(Slice(edges_row, 0, 3), Slice(edges_row, 3, 6)),
               relative_velocity(vel_row),
               fmul(mu, normal_force([c \in 0..2 |-> fadd(forces_row[c], forces_row[3 + c])])))

get_ffr(edges, vels, forces, mu) ==
    [i \in DOMAIN edges |-> get_ffr_row(edges[i], vels[i], forces[i], mu)]

\* ------------------------------------------------ sums and validity checks
vec_add(a, b) == [c \in DOMAIN a |-> fadd(a[c], b[c])]
mat_add(a, b) == [r \in DOMAIN a |-> vec_add(a[r], b[r])]

\* np.sum of an array of vectors
sum_vectors(vs) ==
    FoldAdd([i \in DOMAIN vs |-> FoldAdd(vs[i], 0, ArrLen(vs[i]) - 1)], 0, ArrLen(vs) - 1)

\* np.sum of an array of matrices
sum_matrices(ms) ==
    FoldAdd([i \in DOMAIN ms |-> sum_vectors(ms[i])], 0, ArrLen(ms) - 1)

\* the asserts of lines 375-376 and 432-435 pass on t
test_passes(t) == ~isnan(t) /\ ~isinf(t)

\* ------------------------------------------- scatter-add, lines 313-344
\* the block assigned where it should be added: vec[off:off+6] = src[soff:soff+6]
add_block_overwriting(vec, off, src, soff) ==
    [k \in DOMAIN vec |->
        IF k >= off /\ k < off + 6 THEN src[soff + (k - off)] ELSE vec[k]]

\* vec[off:off+6] += src[soff:soff+6]
add_block(vec, off, src, soff) ==
    [k \in DOMAIN vec |->
        IF k >= off /\ k < off + 6 THEN fadd(vec[k], src[soff + (k - off)]) ELSE vec[k]]

\* mat[ro:ro+6, co:co+6] += src[sro:sro+6, sco:sco+6]
add_block2(mat, ro, co, src, sro, sco) ==
    [a \in DOMAIN mat |->
        IF a >= ro /\ a < ro + 6
        THEN [b \in DOMAIN mat[a] |->
                IF b >= co /\ b < co + 6
                THEN fadd(mat[a][b], src[sro + (a - ro)][sco + (b - co)])
                ELSE mat[a][b]]
        ELSE mat[a]]

\* lines 323-324 and 343-344 for one pair
scatter_force_row(cpp_forces, row, e1, e2) ==
    add_block(add_block(cpp_forces, 3 * e1, row, 0), 3 * e2, row, 6)

\* lines 326-329 for one pair
scatter_hess_row(cpp_jacobian, jac, e1, e2) ==
    add_block2(
        add_block2(
            add_block2(
                add_block2(cpp_jacobian, 3 * e1, 3 * e1, jac, 0, 0),
                3 * e1, 3 * e2, jac, 0, 6),
            3 * e2, 3 * e1, jac, 6, 0),
        3 * e2, 3 * e2, jac, 6, 6)

RECURSIVE py_to_cpp_nohess(_, _, _, _)
\* _py_to_cpp_nohess, the loop from row i on
py_to_cpp_nohess(py_forces, cpp_forces, ids, i) ==
    IF i >= ArrLen(py_forces) THEN cpp_forces
    ELSE py_to_cpp_nohess(py_forces,
                          scatter_force_row(cpp_forces, py_forces[i], ids[i][1], ids[i][2]),
                          ids, i + 1)

RECURSIVE py_to_cpp_hess_jac(_, _, _, _)
\* _jit_py_to_cpp_hess, the Hessian writes of the loop from row i on
py_to_cpp_hess_jac(py_jacobian, cpp_jacobian, ids, i) ==
    IF i >= ArrLen(py_jacobian) THEN cpp_jacobian
    ELSE py_to_cpp_hess_jac(py_jacobian,
                            scatter_hess_row(cpp_jacobian, py_jacobian[i], ids[i][1], ids[i][2]),
                            ids, i + 1)

\* ------------------------------------------------ the output buffers
(* contact_stiffness is kept as the sequence of factors applied to the     *)
(* initial gain, and an output buffer as a record: v, the floats before    *)
(* any gain, and g, the sequence of contact_stiffness values the whole     *)
(* buffer has been multiplied by, so that entry k is exactly v[k] times    *)
(* the gains of g.  mixed_gain marks a buffer that was added to after it   *)
(* was scaled, whose entries are no longer one gain times an integer.      *)
mixed_gain == << <<-1>> >>

\* 0, nan and the infinities are unchanged by a positive finite gain
inert(x) == x = 0 \/ x = NaN \/ isinf(x)

zero_vec(n) == [v |-> [k \in 0..(n - 1) |-> 0], g |-> <<>>]
zero_mat(n) == [v |-> [a \in 0..(n - 1) |-> [b \in 0..(n - 1) |-> 0]], g |-> <<>>]

\* the buffer after += left its floats as newv
accumulated(buf, newv) ==
    [v |-> newv, g |-> IF buf.g = <<>> \/ newv = buf.v THEN buf.g ELSE mixed_gain]

\* self.forces[:] *= self.contact_stiffness
scale_vec(buf, ks) ==
    IF \A k \in DOMAIN buf.v : inert(buf.v[k]) THEN buf
    ELSE [buf EXCEPT !.g = Append(@, ks)]

\* self.hessian[:] *= self.contact_stiffness
scale_mat(buf, ks) ==
    IF \A a \in DOMAIN buf.v : \A b \in DOMAIN buf.v[a] : inert(buf.v[a][b]) THEN buf
    ELSE [buf EXCEPT !.g = Append(@, ks)]

\* ------------------------------ _update_contact_stiffness, lines 446-458
\* the controller with the 1.003 band closed at its upper end
update_contact_stiffness_closed_band(ks, curr_cd, last_cd) ==
    LET diff == curr_cd - last_cd
    IN IF gt_sum(curr_cd, contact_len, T005) /\ diff > 0 THEN Append(ks, F0999)
       ELSE IF diff < 0
       THEN (IF lt_sum(curr_cd, contact_len, -T004) THEN Append(ks, F1010)
             ELSE IF lt_sum(curr_cd, contact_len, -T002) THEN Append(ks, F1005)
             ELSE IF ~gt_sum(curr_cd, contact_len, -T001) THEN Append(ks, F1003)
             ELSE IF curr_cd < contact_len THEN Append(ks, F1001)
             ELSE ks)
       ELSE ks

\* the gain after the call: the factor applied is appended to it
update_contact_stiffness(ks, curr_cd, last_cd) ==
    LET diff == curr_cd - last_cd
    IN IF gt_sum(curr_cd, contact_len, T005) /\ diff > 0 THEN Append(ks, F0999)
       ELSE IF diff < 0
       THEN (IF lt_sum(curr_cd, contact_len, -T004) THEN Append(ks, F1010)
             ELSE IF lt_sum(curr_cd, contact_len, -T002) THEN Append(ks, F1005)
             ELSE IF lt_sum(curr_cd, contact_len, -T001) THEN Append(ks, F1003)
             ELSE IF curr_cd < contact_len THEN Append(ks, F1001)
             ELSE ks)
       ELSE ks

\* ---------------------------------------------- _get_forces, lines 346-382
\* raised: an assert of lines 375-376 failed and the call left by exception
get_forces(edges, ids, vels, cpp_forces, ks, fric) ==
    LET dE_dx == [i \in DOMAIN edges |-> contact_gradient(edges[i])]
        ffr == get_ffr(edges, vels, dE_dx, mu_k)
        total_forces == IF fric # 0 THEN mat_add(dE_dx, ffr) ELSE dE_dx
        test == sum_vectors(total_forces)
    IN IF ~test_passes(test)
       THEN [raised |-> TRUE, forces |-> cpp_forces, f_test |-> test]
       ELSE [raised |-> FALSE,
             forces |-> scale_vec(accumulated(cpp_forces,
                            py_to_cpp_nohess(total_forces, cpp_forces.v, ids, 0)), ks),
             f_test |-> test]

\* ---------------------------------- _get_forces_and_hessian, lines 384-444
\* the totals without the except branch: the friction jacobian is kept
hessian_totals_keeping_friction(edges, vels, fric) ==
    LET dE_dx == [i \in DOMAIN edges |-> contact_gradient(edges[i])]
        d2E_dx2 == [i \in DOMAIN edges |-> contact_hessian(edges[i])]
        ffr == get_ffr(edges, vels, dE_dx, mu_k)
        ffr_jacobian == [i \in DOMAIN edges |-> friction_jacobian(edges[i], vels[i], mu_k)]
        total_forces == IF fric # 0 THEN mat_add(dE_dx, ffr) ELSE dE_dx
        total_jacobian == IF fric # 0 THEN
                              [i \in DOMAIN edges |-> mat_add(d2E_dx2[i], ffr_jacobian[i])]
                          ELSE d2E_dx2
    IN [total_forces |-> total_forces,
        total_jacobian |-> total_jacobian,
        f_test |-> sum_vectors(total_forces), h_test |-> sum_matrices(total_jacobian)]

\* lines 421-437: the force and the Hessian handed to the assembler
hessian_totals(edges, vels, fric) ==
    LET dE_dx == [i \in DOMAIN edges |-> contact_gradient(edges[i])]
        d2E_dx2 == [i \in DOMAIN edges |-> contact_hessian(edges[i])]
        ffr == get_ffr(edges, vels, dE_dx, mu_k)
        ffr_jacobian == [i \in DOMAIN edges |-> friction_jacobian(edges[i], vels[i], mu_k)]
        total_forces == IF fric # 0 THEN mat_add(dE_dx, ffr) ELSE dE_dx
        total_jacobian == IF fric # 0 THEN
                              [i \in DOMAIN edges |-> mat_add(d2E_dx2[i], ffr_jacobian[i])]
                          ELSE d2E_dx2
        ft == sum_vectors(total_forces)
        ht == sum_matrices(total_jacobian)
        caught == ~test_passes(ft) \/ ~test_passes(ht)
    IN [total_forces |-> total_forces,
        total_jacobian |-> IF caught THEN d2E_dx2 ELSE total_jacobian,
        f_test |-> ft, h_test |-> ht]

get_forces_and_hessian(edges, ids, vels, cpp_forces, cpp_jacobian, ks, fric) ==
    LET t == hessian_totals(edges, vels, fric)
    IN [raised |-> FALSE,
        forces |-> scale_vec(accumulated(cpp_forces,
                       py_to_cpp_nohess(t.total_forces, cpp_forces.v, ids, 0)), ks),
        hessian |-> scale_mat(accumulated(cpp_jacobian,
                       py_to_cpp_hess_jac(t.total_jacobian, cpp_jacobian.v, ids, 0)), ks),
        f_test |-> t.f_test, h_test |-> t.h_test]

\* ------------------------------------------------------------------- state
VARIABLES
    num_nodes,          \* params['num_nodes']
    edge_ids,           \* self.edge_ids, the edge-pair table
    contact_stiffness,  \* self.contact_stiffness
    friction,           \* self.friction
    node_coordinates,   \* shared: positions, 3 per node
    velocities,         \* shared: velocities, 3 per node
    forces,             \* shared: output forces
    hessian,            \* shared: output Hessian
    meta_data,          \* shared: control and diagnostics, 6 slots
    loc_edge_ids,       \* start_server's edge_ids, the active contact set
    edge_ids_is_None,   \* start_server's edge_ids is still None
    loc_velocities,     \* start_server's velocities, the velocity snapshot
    velocities_is_None, \* start_server's velocities is still None
    closest_distance,   \* start_server's closest_distance
    last_cd,            \* start_server's last_cd
    hessian_req,        \* start_server's hessian
    first_iter,         \* start_server's first_iter
    f_test,             \* f_test of the last force assembly
    h_test,             \* h_test of the last force-and-Hessian assembly
    pc,                 \* where start_server (or the controller call) stands
    chan,               \* the request/reply channel
    nreq                \* requests sent so far

vars == <<num_nodes, edge_ids, contact_stiffness, friction, node_coordinates, velocities,
          forces, hessian, meta_data, loc_edge_ids, edge_ids_is_None, loc_velocities,
          velocities_is_None, closest_distance, last_cd, hessian_req, first_iter,
          f_test, h_test, pc, chan, nreq>>

shared == <<node_coordinates, velocities, forces, hessian, meta_data>>

num_edges == num_nodes - 1
nv == num_nodes * 3

\* --------------------------------------------- what the solver may write
PosConfigs == {"straight", "near", "shared", "degenerate"}
VelConfigs == {"rest", "moving"}

\* x coordinate of node i; the rod lies on the x axis
\* ("near": edges 0 and 3 are 0.03 apart, contact_len + collision_limit in
\* decimals)
NodeX(cfg, i) ==
    CASE cfg = "straight" -> 100 * i
      [] cfg = "near" -> IF i = 3 THEN 130 ELSE 100 * i
      [] cfg = "shared" -> IF i < 3 THEN 100 * i ELSE -10 - 5 * (i - 3)
      [] cfg = "degenerate" -> IF i < 3 THEN 100 * i ELSE -10 - 5 * Max(0, i - 4)

Positions(cfg, n) == [k \in 0..(3 * n - 1) |-> IF k % 3 = 0 THEN NodeX(cfg, k \div 3) ELSE 0]

Velocities(cfg, n) ==
    [k \in 0..(3 * n - 1) |->
        IF cfg = "rest" THEN 0
        ELSE IF k % 3 = 0 THEN 4 * (k \div 3) ELSE IF k % 3 = 1 THEN 2 ELSE 0]

\* ------------------------------------ the steps of start_server's loop body
\* the detector run on every request
redetect_always(fi) == TRUE

\* line 484: the detector runs on this request
redetect(fi) == fi # 0

\* the force buffer left as the previous request filled it
reset_forces_skipped(cpp_forces) == cpp_forces

\* line 489: self.forces[:] = 0.
reset_forces(cpp_forces) == zero_vec(ArrLen(cpp_forces.v))

\* line 490: if hessian: self.hessian[:] = 0.
reset_hessian(cpp_hessian, hess) ==
    IF hess # 0 THEN zero_mat(ArrLen(cpp_hessian.v)) ELSE cpp_hessian

\* line 497: the velocity snapshot the assembly reads
snapshot_after(fi, snapshot, ids, velocity_data) ==
    IF fi # 0 THEN jit_prepare_velocities(ids, velocity_data) ELSE snapshot

\* the controller run on sub-iterations too
stiffness_after_every_request(fi, ks, curr_cd, prev_cd) ==
    update_contact_stiffness(ks, curr_cd, prev_cd)

\* line 501: the gain after the controller's turn
stiffness_after(fi, ks, curr_cd, prev_cd) ==
    IF fi # 0 THEN update_contact_stiffness(ks, curr_cd, prev_cd) ELSE ks

\* slot [4] written without the division by the scale
reported_unscaled(md, cd) == [md EXCEPT ![4] = cd]

\* slot [4] not yet written when the reply leaves
reported_after_reply(md, cd) == md

\* line 511: self.meta_data[4] = closest_distance / self.scale
reported(md, cd) == [md EXCEPT ![4] = cd \div S]

\* lines 517-518: last_cd after the request
last_cd_after(fi, cd, prev_cd) == IF fi # 0 THEN cd ELSE prev_cd

\* -------------------------------------------------------------------- Init
\* lines 84-93: the five segments exist before the server starts and are
\* mapped, not initialised; each holds what the solver, or an earlier run on
\* the same port, left in it.  SegmentFill is what every entry of a segment
\* may hold then: zero, a finite value, nan or an infinity.
SegmentFill == {0, 7, NaN, PInf, NInf}

filled_vec(n, c) == [v |-> [k \in 0..(n - 1) |-> c], g |-> <<>>]
filled_mat(n, c) == [v |-> [a \in 0..(n - 1) |-> [b \in 0..(n - 1) |-> c]], g |-> <<>>]

Init ==
    /\ num_nodes \in 2..MaxNodes
    /\ edge_ids = InitEdgeIds(num_nodes - 1)
    /\ contact_stiffness = <<>>
    /\ friction = 0
    /\ \E c \in SegmentFill : node_coordinates = [k \in 0..(3 * num_nodes - 1) |-> c]
    /\ \E c \in SegmentFill : velocities = [k \in 0..(3 * num_nodes - 1) |-> c]
    /\ \E c \in SegmentFill : forces = filled_vec(3 * num_nodes, c)
    /\ \E c \in SegmentFill : hessian = filled_mat(3 * num_nodes, c)
    /\ \E c \in SegmentFill : meta_data = [k \in 0..5 |-> c]
    /\ loc_edge_ids = <<>>
    /\ edge_ids_is_None = TRUE
    /\ loc_velocities = <<>>
    /\ velocities_is_None = TRUE
    /\ closest_distance = 0
    /\ last_cd = 0
    /\ hessian_req = 0
    /\ first_iter = 0
    /\ f_test = 0
    /\ h_test = 0
    /\ pc = "wait"
    /\ chan = "idle"
    /\ nreq = 0

\* ------------------------------------------------------------- the solver
\* The solver, holding the turn, writes positions, velocities and flags and
\* sends the next request.
SolverRequest ==
    /\ chan \in {"idle", "reply"}
    /\ nreq < MaxRequests
    /\ \E p \in PosConfigs, v \in VelConfigs, fi \in {0, 1}, fr \in {0, 1}, he \in {0, 1} :
        /\ node_coordinates' = Positions(p, num_nodes)
        /\ velocities' = Velocities(v, num_nodes)
        /\ meta_data' = [meta_data EXCEPT ![0] = fi, ![1] = fr, ![5] = he]
    /\ chan' = "request"
    /\ nreq' = nreq + 1
    /\ UNCHANGED <<num_nodes, edge_ids, contact_stiffness, friction, forces, hessian,
                   loc_edge_ids, edge_ids_is_None, loc_velocities, velocities_is_None,
                   closest_distance, last_cd, hessian_req, first_iter, f_test, h_test, pc>>

\* ------------------------------------------- start_server, lines 472-525
\* lines 474-486: receive, read the flags, rescale, detect on first_iter
Recv ==
    /\ pc = "wait"
    /\ chan = "request"
    /\ chan' = "busy"
    /\ hessian_req' = meta_data[5]
    /\ first_iter' = meta_data[0]
    /\ friction' = meta_data[1]
    /\ node_coordinates' = [k \in DOMAIN node_coordinates |-> node_coordinates[k] * S]
    /\ IF redetect(meta_data[0])
       THEN /\ velocities' = [k \in DOMAIN velocities |-> velocities[k] * S]
            /\ LET det == jit_detect_collisions(edge_ids, node_coordinates', num_edges)
               IN IF det.ok
                  THEN /\ loc_edge_ids' = det.f_edge_ids
                       /\ edge_ids_is_None' = FALSE
                       /\ closest_distance' = det.closest_distance
                       /\ pc' = "zero"
                  ELSE /\ pc' = "crashed"
                       /\ UNCHANGED <<loc_edge_ids, edge_ids_is_None, closest_distance>>
       ELSE /\ pc' = "zero"
            /\ UNCHANGED <<velocities, loc_edge_ids, edge_ids_is_None, closest_distance>>
    /\ UNCHANGED <<num_nodes, edge_ids, contact_stiffness, forces, hessian, meta_data,
                   loc_velocities, velocities_is_None, last_cd, f_test, h_test, nreq>>

\* lines 489-494: zero the outputs, then read the size of the active set
ZeroBuffers ==
    /\ pc = "zero"
    /\ forces' = reset_forces(forces)
    /\ hessian' = reset_hessian(hessian, hessian_req)
    /\ pc' = IF edge_ids_is_None THEN "crashed"
             ELSE IF ArrLen(loc_edge_ids) # 0 THEN "compute" ELSE "report"
    /\ UNCHANGED <<num_nodes, edge_ids, contact_stiffness, friction, node_coordinates,
                   velocities, meta_data, loc_edge_ids, edge_ids_is_None, loc_velocities,
                   velocities_is_None, closest_distance, last_cd, hessian_req, first_iter,
                   f_test, h_test, chan, nreq>>

\* lines 497-509: the branch taken when contact is detected
Compute ==
    /\ pc = "compute"
    /\ LET vels == snapshot_after(first_iter, loc_velocities, loc_edge_ids, velocities)
           prep == jit_prepare_edges(loc_edge_ids, node_coordinates)
           ks == stiffness_after(first_iter, contact_stiffness, prep.closest_distance, last_cd)
       IN /\ loc_velocities' = vels
          /\ velocities_is_None' = (velocities_is_None /\ first_iter = 0)
          /\ closest_distance' = prep.closest_distance
          /\ contact_stiffness' = ks
          /\ IF hessian_req = 0
             THEN LET res == get_forces(prep.edge_combos, loc_edge_ids, vels, forces, ks,
                                        friction)
                  IN /\ forces' = res.forces
                     /\ f_test' = res.f_test
                     /\ pc' = IF res.raised THEN "aborted" ELSE "report"
                     /\ UNCHANGED <<hessian, h_test>>
             ELSE LET res == get_forces_and_hessian(prep.edge_combos, loc_edge_ids, vels,
                                                    forces, hessian, ks, friction)
                  IN /\ forces' = res.forces
                     /\ hessian' = res.hessian
                     /\ f_test' = res.f_test
                     /\ h_test' = res.h_test
                     /\ pc' = IF res.raised THEN "aborted" ELSE "report"
    /\ UNCHANGED <<num_nodes, edge_ids, friction, node_coordinates, velocities, meta_data,
                   loc_edge_ids, edge_ids_is_None, last_cd, hessian_req, first_iter,
                   chan, nreq>>

\* line 511
Report ==
    /\ pc = "report"
    /\ meta_data' = reported(meta_data, closest_distance)
    /\ pc' = "send"
    /\ UNCHANGED <<num_nodes, edge_ids, contact_stiffness, friction, node_coordinates,
                   velocities, forces, hessian, loc_edge_ids, edge_ids_is_None,
                   loc_velocities, velocities_is_None, closest_distance, last_cd,
                   hessian_req, first_iter, f_test, h_test, chan, nreq>>

\* line 514
Send ==
    /\ pc = "send"
    /\ chan' = "reply"
    /\ pc' = "post"
    /\ UNCHANGED <<num_nodes, edge_ids, contact_stiffness, friction, node_coordinates,
                   velocities, forces, hessian, meta_data, loc_edge_ids, edge_ids_is_None,
                   loc_velocities, velocities_is_None, closest_distance, last_cd,
                   hessian_req, first_iter, f_test, h_test, nreq>>

\* lines 519-525: the summary line converts slot [3] with int(), which raises
\* on nan and on the infinities
summary_raises(fi, md) == fi # 0 /\ (isnan(md[3]) \/ isinf(md[3]))

\* lines 517-525: last_cd is recorded before the summary is printed; an
\* exception of the print ends the server after the reply has been sent
Post ==
    /\ pc = "post"
    /\ last_cd' = last_cd_after(first_iter, closest_distance, last_cd)
    /\ pc' = IF summary_raises(first_iter, meta_data) THEN "crashed_after_reply" ELSE "wait"
    /\ UNCHANGED <<num_nodes, edge_ids, contact_stiffness, friction, node_coordinates,
                   velocities, forces, hessian, meta_data, loc_edge_ids, edge_ids_is_None,
                   loc_velocities, velocities_is_None, closest_distance,
                   hessian_req, first_iter, f_test, h_test, chan, nreq>>

Next == SolverRequest \/ Recv \/ ZeroBuffers \/ Compute \/ Report \/ Send \/ Post

Spec == Init /\ [][Next]_vars

\* ------------------------- _update_contact_stiffness on its own, any inputs
StiffRange == (contact_len - StiffSpan)..(contact_len + StiffSpan)

InitStiff ==
    /\ num_nodes = 2
    /\ edge_ids = InitEdgeIds(1)
    /\ contact_stiffness \in {<<>>, <<F1010>>}
    /\ friction = 0
    /\ node_coordinates = [k \in 0..5 |-> 0]
    /\ velocities = [k \in 0..5 |-> 0]
    /\ forces = zero_vec(6)
    /\ hessian = zero_mat(6)
    /\ meta_data = [k \in 0..5 |-> 0]
    /\ loc_edge_ids = <<>>
    /\ edge_ids_is_None = TRUE
    /\ loc_velocities = <<>>
    /\ velocities_is_None = TRUE
    /\ closest_distance \in StiffRange
    /\ last_cd \in StiffRange
    /\ hessian_req = 0
    /\ first_iter = 1
    /\ f_test = 0
    /\ h_test = 0
    /\ pc = "stiff_call"
    /\ chan = "idle"
    /\ nreq = 0

\* self._update_contact_stiffness(closest_distance, last_cd)
StiffCall ==
    /\ pc = "stiff_call"
    /\ contact_stiffness' = update_contact_stiffness(contact_stiffness, closest_distance, last_cd)
    /\ pc' = "stiff_done"
    /\ UNCHANGED <<num_nodes, edge_ids, friction, node_coordinates, velocities, forces,
                   hessian, meta_data, loc_edge_ids, edge_ids_is_None, loc_velocities,
                   velocities_is_None, closest_distance, last_cd, hessian_req, first_iter,
                   f_test, h_test, chan, nreq>>

NextStiff == StiffCall

SpecStiff == InitStiff /\ [][NextStiff]_vars


\* =========================================================== properties
\* The pairs the table is meant to hold, and distances measured pair by pair
\* from the shared positions, independently of the table and of the detector.
EligiblePairs(ne) ==
    {p \in (0..(ne - 1)) \X (0..(ne - 1)) : p[1] < p[2] /\ p[2] - p[1] > ia}

PairDist(node_data, p) ==
    interval_gap(node_data[3 * p[1]], node_data[3 * p[1] + 3],
                 node_data[3 * p[2]], node_data[3 * p[2] + 3])

SetMin(s) == CHOOSE d \in s : \A e \in s : d <= e

GlobalMin == SetMin({PairDist(node_coordinates, p) : p \in EligiblePairs(num_edges)})

ActivePairs == {loc_edge_ids[r] : r \in DOMAIN loc_edge_ids}

ActiveMin == SetMin({PairDist(node_coordinates, p) : p \in ActivePairs})

ActiveSetEmpty == ~edge_ids_is_None /\ ArrLen(loc_edge_ids) = 0

AllZeroVec(buf) == \A k \in DOMAIN buf.v : buf.v[k] = 0

AllZeroMat(buf) == \A a \in DOMAIN buf.v : \A b \in DOMAIN buf.v[a] : buf.v[a][b] = 0

AllFiniteVec(buf) == \A k \in DOMAIN buf.v : test_passes(buf.v[k])

\* C1 as stated: an aggregated force holding a NaN or an Inf, in the
\* forces-only path or in the forces-and-Hessian path, aborts the step: it
\* is never scatter-added into the force buffer, which holds what the
\* request's zeroing and assembly put there, and no reply follows it.
C1_InvalidForceIsFatal ==
    /\ ~test_passes(f_test) => pc = "aborted"
    /\ pc \in {"compute", "report", "send", "post", "aborted"} => AllFiniteVec(forces)

\* C2: after a request whose active set is empty every entry of the force
\* buffer is zero, whatever the flags; the Hessian buffer is zero when the
\* Hessian was requested and is left as it was when it was not.
C2_Step ==
    /\ (pc = "zero" /\ pc' = "report") =>
          /\ AllZeroVec(forces')
          /\ hessian_req # 0 => AllZeroMat(hessian')
          /\ hessian_req = 0 => hessian' = hessian
    /\ (pc \in {"report", "send", "post"} /\ ActiveSetEmpty) =>
          /\ forces' = forces
          /\ hessian' = hessian
          /\ AllZeroVec(forces)

C2_EmptySetZeroesForcesAndRequestedHessian == [][C2_Step]_vars

\* C2 as stated: with an empty active set both buffers are zero after the
\* request, whatever the flags.
C2_EmptySetZeroesBothBuffers ==
    (pc \in {"report", "send", "post"} /\ ActiveSetEmpty) =>
        AllZeroVec(forces) /\ AllZeroMat(hessian)

\* an empty-set request that asked for no Hessian has answered over a
\* Hessian buffer still holding the previous request's entries
C2_Witness ==
    /\ pc = "post"
    /\ ActiveSetEmpty
    /\ hessian_req = 0
    /\ ~AllZeroMat(hessian)
    /\ AllZeroVec(forces)

ComputeStep == pc = "compute" /\ pc' # pc

EmptySetStep == pc = "zero" /\ pc' = "report"

\* what both readings of C3 share: the value kept as "previous" is the
\* global minimum of the last first_iteration request, recorded after the
\* reply (also when the summary print then ends the server), and nothing
\* but the compute branch ever changes the gain
PostStep == pc = "post" /\ pc' # pc

C3_Frame ==
    /\ (pc = "report" /\ first_iter # 0) => closest_distance = GlobalMin
    /\ pc \in {"report", "send"} => closest_distance' = closest_distance
    /\ PostStep => pc' \in {"wait", "crashed_after_reply"}
    /\ PostStep => last_cd' = IF first_iter # 0 THEN closest_distance ELSE last_cd
    /\ ~PostStep => last_cd' = last_cd
    /\ (ComputeStep /\ first_iter # 0) =>
          contact_stiffness' = update_contact_stiffness(contact_stiffness, GlobalMin, last_cd)
    /\ (ComputeStep /\ first_iter = 0) => contact_stiffness' = contact_stiffness
    /\ (~ComputeStep /\ ~EmptySetStep) => contact_stiffness' = contact_stiffness

\* C3: the controller is applied exactly once on a first_iteration request
\* whose active set is not empty, to this request's global minimum distance
\* and the one recorded at the previous first_iteration request; on a
\* first_iteration request with an empty active set, and on every other
\* request, contact_stiffness is unchanged.
C3_Step ==
    /\ C3_Frame
    /\ EmptySetStep => contact_stiffness' = contact_stiffness

C3_ControllerOnlyWithContact == [][C3_Step]_vars

\* C3 as stated: the controller is applied on every first_iteration request,
\* whether or not the active set is empty.
C3_StepAsStated ==
    /\ C3_Frame
    /\ (EmptySetStep /\ first_iter # 0) =>
          contact_stiffness' = update_contact_stiffness(contact_stiffness, GlobalMin, last_cd)
    /\ (EmptySetStep /\ first_iter = 0) => contact_stiffness' = contact_stiffness

C3_ControllerOnEveryFirstIteration == [][C3_StepAsStated]_vars

\* a first_iteration request with no pair in range, far beyond the target
\* and farther than last time, has left the gain where the one application
\* of an earlier first_iteration request with contact had put it
C3_Witness ==
    /\ pc = "report"
    /\ first_iter # 0
    /\ ActiveSetEmpty
    /\ Len(contact_stiffness) = 1
    /\ GlobalMin > contact_len + T005
    /\ GlobalMin > last_cd

ReplyStep == pc = "send" /\ pc' = "post"

\* what both readings of C4 share.  Slot [4] is written by line 511 alone,
\* so a request on which the server ends leaves it as it was; when the
\* reply of a request leaves, slot [4] holds closest_distance / scale, which
\* is the global minimum over all eligible pairs at this request's positions
\* on a first_iteration request and the minimum over the active pairs at
\* this request's positions on a sub-iteration with contact; the value kept
\* for later is the one of the last first_iteration request; and a request
\* whose active set is empty skips the compute branch: the energy model is
\* not evaluated, nothing is added to the zeroed buffers, and the gain and
\* the velocity snapshot stay as they were.
C4_Frame ==
    /\ meta_data'[4] # meta_data[4] => pc = "report"
    /\ ReplyStep =>
          /\ meta_data[4] * S = closest_distance
          /\ closest_distance' = closest_distance
          /\ first_iter # 0 => closest_distance = GlobalMin
          /\ (first_iter = 0 /\ ~ActiveSetEmpty) => closest_distance = ActiveMin
    /\ PostStep => last_cd' = IF first_iter # 0 THEN closest_distance ELSE last_cd
    /\ ~PostStep => last_cd' = last_cd
    /\ (pc = "zero" /\ pc' # pc /\ ActiveSetEmpty) =>
          /\ pc' = "report"
          /\ AllZeroVec(forces')
          /\ hessian' = reset_hessian(hessian, hessian_req)
    /\ (pc \in {"report", "send"} /\ ActiveSetEmpty) =>
          forces' = forces /\ hessian' = hessian
    /\ (pc \in {"zero", "report", "send"} /\ ActiveSetEmpty) =>
          /\ f_test' = f_test /\ h_test' = h_test
          /\ contact_stiffness' = contact_stiffness
          /\ loc_velocities' = loc_velocities /\ velocities_is_None' = velocities_is_None

\* C4: after every request slot [4] holds the minimum segment-segment
\* distance divided by the scale; on a request whose active set is empty no
\* energy-model or assembly work is done and slot [4] holds the global
\* minimum over all eligible pairs, evaluated at this request's positions
\* when first_iteration is set and, when it is unset, as it was evaluated at
\* the last first_iteration request.
C4_Step ==
    /\ C4_Frame
    /\ (ReplyStep /\ ActiveSetEmpty /\ first_iter = 0) => meta_data[4] * S = last_cd

C4_SlotFourHoldsClosestDistance == [][C4_Step]_vars

\* C4 as stated: on any request whose active set is empty, first iteration
\* or sub-iteration, no energy-model or assembly work is done and slot [4]
\* holds the global minimum over all eligible pairs at the positions of that
\* request.
C4_StepAsStated ==
    /\ C4_Frame
    /\ (ReplyStep /\ ActiveSetEmpty) => meta_data[4] * S = GlobalMin

C4_EmptySetReportsGlobalMin == [][C4_StepAsStated]_vars

\* a sub-iteration with an empty active set answers with the distance of the
\* last first_iteration request although the rod has moved since
C4_Witness ==
    /\ pc = "send"
    /\ first_iter = 0
    /\ ActiveSetEmpty
    /\ meta_data[4] * S = last_cd
    /\ meta_data[4] * S # GlobalMin

\* the eligible pairs within range at the given positions
InRange(node_data) ==
    {p \in EligiblePairs(num_edges) :
        sum_lt(PairDist(node_data, p), -contact_len, collision_limit)}

RecvStep == pc = "wait" /\ pc' = "zero"

\* C5: the active set is replaced, by the pairs in range at the request's
\* positions, only on receiving a first_iteration request, and the velocity
\* snapshot is rebuilt, from the shared velocities of the active pairs, only
\* in the compute branch of a first_iteration request; every other step
\* leaves both as the last first_iteration request left them.
C5_Step ==
    /\ (loc_edge_ids' # loc_edge_ids \/ edge_ids_is_None' # edge_ids_is_None) =>
          pc = "wait" /\ meta_data[0] # 0
    /\ (loc_velocities' # loc_velocities \/ velocities_is_None' # velocities_is_None) =>
          pc = "compute" /\ first_iter # 0
    /\ (RecvStep /\ meta_data[0] # 0) =>
          ~edge_ids_is_None' /\ ActivePairs' = InRange(node_coordinates')
    /\ (ComputeStep /\ first_iter # 0) =>
          /\ ~velocities_is_None'
          /\ DOMAIN loc_velocities' = DOMAIN loc_edge_ids
          /\ \A r \in DOMAIN loc_edge_ids : \A c \in 0..5 :
                /\ loc_velocities'[r][c] = velocities[3 * loc_edge_ids[r][1] + c]
                /\ loc_velocities'[r][6 + c] = velocities[3 * loc_edge_ids[r][2] + c]

C5_ActiveSetFrozenBetweenFirstIterations == [][C5_Step]_vars

\* a sub-iteration has been computed on the active set and the snapshot of
\* the first_iteration request although the rod has moved out of range and
\* the shared velocities have changed
C5_Witness ==
    /\ pc = "send"
    /\ nreq = 2
    /\ first_iter = 0
    /\ ActivePairs # {}
    /\ InRange(node_coordinates) = {}
    /\ \E r \in DOMAIN loc_edge_ids : \E c \in 0..5 :
          loc_velocities[r][c] # velocities[3 * loc_edge_ids[r][1] + c]

PcMoves ==
    {<<"wait", "zero">>, <<"wait", "crashed">>, <<"zero", "compute">>,
     <<"zero", "report">>, <<"zero", "crashed">>, <<"compute", "report">>,
     <<"compute", "aborted">>, <<"report", "send">>, <<"send", "post">>,
     <<"post", "wait">>}

ChanMoves ==
    {<<"idle", "request">>, <<"request", "busy">>, <<"busy", "reply">>,
     <<"reply", "request">>}

\* what holds of the exchange whether or not the server survives the reply:
\* a request is taken only while waiting, one at a time, and answered by at
\* most one reply; the reply is sent only after the buffers and slot [4]
\* have been written; the core writes the shared buffers only between
\* taking a request and answering it, never after a reply.
C6_Frame ==
    /\ chan' # chan => <<chan, chan'>> \in ChanMoves
    /\ chan' = "busy" <=> pc' \in {"zero", "compute", "report", "send", "crashed", "aborted"}
    /\ (chan = "request" /\ chan' = "busy") => pc = "wait"
    /\ (chan = "busy" /\ chan' = "reply") =>
          /\ pc = "send"
          /\ meta_data[4] * S = closest_distance
          /\ ActiveSetEmpty => AllZeroVec(forces)
          /\ UNCHANGED shared
    /\ (shared' # shared /\ nreq' = nreq) => chan' = "busy"
    /\ (pc \in {"post", "wait", "crashed_after_reply"} /\ chan' # "busy" /\ nreq' = nreq) =>
          UNCHANGED shared

\* C6 as stated: the loop goes WAIT, COMPUTE, REPLY, WAIT: after the reply
\* the server waits for the next request; a request is taken only while
\* waiting, one at a time, and answered by exactly one reply; the reply is
\* sent only after the buffers and slot [4] have been written; the core
\* writes the shared buffers only between taking a request and answering
\* it, never between a reply and the next request.
C6_Step ==
    /\ C6_Frame
    /\ pc' # pc => <<pc, pc'>> \in PcMoves

C6_StepOfTheCode ==
    /\ C6_Frame
    /\ pc' # pc => <<pc, pc'>> \in PcMoves \cup {<<"post", "crashed_after_reply">>}
    /\ pc' = "crashed_after_reply" => first_iter # 0 /\ ~test_passes(meta_data[3])

C6_AlternationUntilTheServerEnds == [][C6_StepOfTheCode]_vars

\* the reply of a first_iteration request has left, last_cd is recorded, and
\* the server has ended on the summary print while the solver holds the turn
C6_ServerEndedAfterReply ==
    /\ pc = "crashed_after_reply"
    /\ chan = "reply"
    /\ first_iter # 0
    /\ last_cd = closest_distance
    /\ ~test_passes(meta_data[3])

\* two requests have each been answered by one reply
C6_Witness ==
    /\ nreq = 2
    /\ chan = "reply"
    /\ pc = "wait"

\* the local index (0..11) of global entry k for the pair p, or -1
Loc(p, k) ==
    IF k >= 3 * p[1] /\ k < 3 * p[1] + 6 THEN k - 3 * p[1]
    ELSE IF k >= 3 * p[2] /\ k < 3 * p[2] + 6 THEN 6 + (k - 3 * p[2])
    ELSE -1

\* the sum over all active pairs of the local force entries mapped to k
ForceSum(rows, k) ==
    FoldAdd([r \in DOMAIN loc_edge_ids |->
                IF Loc(loc_edge_ids[r], k) >= 0 THEN rows[r][Loc(loc_edge_ids[r], k)] ELSE 0],
            0, ArrLen(loc_edge_ids) - 1)

\* the sum over all active pairs of the local Hessian entries mapped to (a, b)
HessSum(jacs, a, b) ==
    FoldAdd([r \in DOMAIN loc_edge_ids |->
                IF Loc(loc_edge_ids[r], a) >= 0 /\ Loc(loc_edge_ids[r], b) >= 0
                THEN jacs[r][Loc(loc_edge_ids[r], a)][Loc(loc_edge_ids[r], b)] ELSE 0],
            0, ArrLen(loc_edge_ids) - 1)

\* a buffer holding the floats v has been multiplied by the current gain,
\* once (a gain leaves a buffer of zeros, nans and infinities as it is)
ScaledOnce(buf, v, inertAll) ==
    /\ buf.v = v
    /\ buf.g = IF inertAll THEN <<>> ELSE <<contact_stiffness>>

Computed == pc \in {"report", "send"} /\ ~ActiveSetEmpty

ActiveCombos == prepare_combos(loc_edge_ids, node_coordinates)

\* C7: with friction on and the Hessian requested, when the sum of the
\* aggregated Hessian is a NaN or an Inf while the sum of the aggregated
\* force is finite, the Hessian buffer holds the contact Hessian alone, the
\* force buffer holds contact plus friction, and the step goes on to its
\* reply; the only abort is that of the forces-only path.
C7_HessianFallsBackToContactOnly ==
    /\ pc = "aborted" => hessian_req = 0
    /\ (Computed /\ hessian_req # 0 /\ friction # 0
            /\ test_passes(f_test) /\ ~test_passes(h_test)) =>
          LET dE_dx == [i \in DOMAIN ActiveCombos |-> contact_gradient(ActiveCombos[i])]
              d2E_dx2 == [i \in DOMAIN ActiveCombos |-> contact_hessian(ActiveCombos[i])]
              ffr == get_ffr(ActiveCombos, loc_velocities, dE_dx, mu_k)
              both == [i \in DOMAIN ActiveCombos |-> vec_add(dE_dx[i], ffr[i])]
          IN /\ hessian.v = [a \in 0..(nv - 1) |-> [b \in 0..(nv - 1) |->
                                HessSum(d2E_dx2, a, b)]]
             /\ forces.v = [k \in 0..(nv - 1) |-> ForceSum(both, k)]

\* the friction jacobian of a pair with no relative velocity was a nan, the
\* force was finite, and the step stands before its reply with the contact
\* Hessian in the buffer
C7_Witness ==
    /\ pc = "send"
    /\ ~ActiveSetEmpty
    /\ hessian_req # 0
    /\ friction # 0
    /\ test_passes(f_test)
    /\ isnan(h_test)
    /\ ~AllZeroMat(hessian)
    /\ \A a \in DOMAIN hessian.v : \A b \in DOMAIN hessian.v : test_passes(hessian.v[a][b])

\* C9: after a step with a non-empty active set entry k of the force buffer
\* is contact_stiffness times the sum over all active pairs of the local
\* entries mapped to k, and when the Hessian is requested entry (a, b) of
\* the Hessian buffer is contact_stiffness times the sum over all active
\* pairs of the local entries of the four 6x6 blocks mapped to (a, b).
C9_ScatterAddSumsAllPairs ==
    Computed =>
        LET t == hessian_totals(ActiveCombos, loc_velocities, friction)
            fv == [k \in 0..(nv - 1) |-> ForceSum(t.total_forces, k)]
            hv == [a \in 0..(nv - 1) |-> [b \in 0..(nv - 1) |->
                      HessSum(t.total_jacobian, a, b)]]
        IN /\ ScaledOnce(forces, fv, \A k \in DOMAIN fv : inert(fv[k]))
           /\ hessian_req # 0 =>
                 ScaledOnce(hessian, hv,
                            \A a \in DOMAIN hv : \A b \in DOMAIN hv[a] : inert(hv[a][b]))

\* two active pairs share edge 0: its six force entries and its 6x6 diagonal
\* block hold the sum of both pairs' contributions, times the gain
C9_Witness ==
    /\ pc = "send"
    /\ hessian_req # 0
    /\ ArrLen(loc_edge_ids) = 2
    /\ loc_edge_ids[0][1] = loc_edge_ids[1][1]
    /\ forces.g = <<contact_stiffness>>
    /\ hessian.g = <<contact_stiffness>>
    /\ forces.v[0] = contact_gradient(ActiveCombos[0])[0] + contact_gradient(ActiveCombos[1])[0]
    /\ forces.v[0] # contact_gradient(ActiveCombos[1])[0]

\* (i, j) order
Lex(p, q) == p[1] < q[1] \/ (p[1] = q[1] /\ p[2] < q[2])

\* the sum over i of max(0, ne - i - (ia + 1))
TableLength(ne) ==
    FoldAdd([i \in 0..(ne - 1) |-> Max(0, ne - i - (ia + 1))], 0, ne - 1)

\* tab holds exactly the eligible pairs of ne edges, once each, in order
IsPairTable(tab, ne) ==
    /\ DOMAIN tab = 0..(TableLength(ne) - 1)
    /\ Cardinality(EligiblePairs(ne)) = TableLength(ne)
    /\ \A r \in DOMAIN tab :
          /\ tab[r] \in EligiblePairs(ne)
          /\ Cardinality({q \in EligiblePairs(ne) : Lex(q, tab[r])}) = r

TablesUpToMax == \A ne \in 1..MaxTableEdges : IsPairTable(InitEdgeIds(ne), ne)

\* C8: for every num_edges >= 1, with ia = 2, the table built at startup
\* holds exactly the pairs (i, j) with 0 <= i < j < num_edges and
\* j - i > ia, once each, in increasing (i, j) order, its length is the sum
\* over i of max(0, num_edges - i - (ia + 1)), and it is the same table in
\* every state a run of requests reaches.
C8_EdgePairTable ==
    /\ TablesUpToMax
    /\ IsPairTable(edge_ids, num_edges)

\* two requests have been served on a rod of five edges and the table still
\* holds its three pairs
C8_Witness ==
    /\ nreq = 2
    /\ pc = "post"
    /\ num_edges = 5
    /\ edge_ids = SeqToArr(<< <<0, 3>>, <<0, 4>>, <<1, 4>> >>)

\* current lies in [contact_len - lo, contact_len - hi), the ends being the
\* float64 differences
InBand(current, lo, hi) ==
    ~lt_sum(current, contact_len, -lo) /\ lt_sum(current, contact_len, -hi)

\* the factor C10 names for a pair of distances, 0 for "unchanged"
ClaimedFactor(current, previous) ==
    IF gt_sum(current, contact_len, T005) /\ current > previous THEN F0999
    ELSE IF current < previous /\ lt_sum(current, contact_len, -T004) THEN F1010
    ELSE IF current < previous /\ InBand(current, T004, T002) THEN F1005
    ELSE IF current < previous /\ InBand(current, T002, T001) THEN F1003
    ELSE IF current < previous /\ InBand(current, T001, 0) THEN F1001
    ELSE 0

\* C10: for every pair (current, previous) the call multiplies
\* contact_stiffness by 0.999 if current > contact_len + 0.005 and
\* current > previous; otherwise, if current < previous, by 1.01, 1.005,
\* 1.003 or 1.001 as current lies below contact_len - 0.004, in
\* [contact_len - 0.004, contact_len - 0.002), in
\* [contact_len - 0.002, contact_len - 0.001) or in
\* [contact_len - 0.001, contact_len); in every other case it leaves
\* contact_stiffness unchanged.
C10_Step ==
    pc = "stiff_call" =>
        contact_stiffness' =
            IF ClaimedFactor(closest_distance, last_cd) = 0 THEN contact_stiffness
            ELSE Append(contact_stiffness, ClaimedFactor(closest_distance, last_cd))

C10_FactorTable == [][C10_Step]_vars

\* the call has applied 1.005 to a gain that had been raised before: the
\* distance 0.018 had fallen to the edge of the band, below the float64
\* contact_len - 0.002 = 0.018000000000000002
C10_Witness ==
    /\ pc = "stiff_done"
    /\ contact_stiffness = <<F1010, F1005>>
    /\ closest_distance = contact_len - T002
    /\ last_cd > closest_distance

\* the row of the table that holds the pair p
RowOf(p) == CHOOSE r \in DOMAIN edge_ids : edge_ids[r] = p

\* the rows of the table whose distance d has d - contact_len < collision_limit,
\* the difference being the float64 one
RowsInRange(node_data) ==
    {r \in DOMAIN edge_ids :
        sum_lt(PairDist(node_data, edge_ids[r]), -contact_len, collision_limit)}

\* res holds exactly the table entries in range at node_data, in table order
IsFilteredTable(res, node_data) ==
    /\ DOMAIN res = 0..(Cardinality(RowsInRange(node_data)) - 1)
    /\ {res[k] : k \in DOMAIN res} = {edge_ids[r] : r \in RowsInRange(node_data)}
    /\ \A k \in DOMAIN res : \A l \in DOMAIN res :
          k < l => RowOf(res[k]) < RowOf(res[l])

\* the minimum of d over all entries of the table
TableMin(node_data) ==
    SetMin({PairDist(node_data, edge_ids[r]) : r \in DOMAIN edge_ids})

DetectStep == pc = "wait" /\ pc' # pc /\ meta_data[0] # 0

\* what the detector returns when it returns: the filtered table, in table
\* order, and the minimum over the whole table
C11_Returned ==
    (DetectStep /\ pc' = "zero") =>
        /\ ~edge_ids_is_None'
        /\ IsFilteredTable(loc_edge_ids', node_coordinates')
        /\ closest_distance' = TableMin(node_coordinates')

\* C11 as stated: given the positions of a request the detector returns the
\* entries of the table with d - contact_len < collision_limit, in table
\* order, and the minimum of d over all entries of the table, also when no
\* entry passes the filter.
C11_StepAsStated ==
    /\ DetectStep => pc' = "zero"
    /\ C11_Returned

C11_DetectorReturnsFilterAndMin == [][C11_StepAsStated]_vars

\* C11 on a table with at least one entry: there the detector always
\* returns, and returns the filtered table and the minimum over the table.
C11_StepNonEmptyTable ==
    /\ (DetectStep /\ ArrLen(edge_ids) > 0) => pc' = "zero"
    /\ (DetectStep /\ ArrLen(edge_ids) = 0) => pc' = "crashed"
    /\ C11_Returned

C11_DetectorOnNonEmptyTable == [][C11_StepNonEmptyTable]_vars

\* the snapshot matches the active set whenever a sub-iteration is about to
\* run the energy model on it
C12_SnapshotMatchesActiveSet ==
    (pc = "compute" /\ first_iter = 0) =>
        /\ ~velocities_is_None
        /\ DOMAIN loc_velocities = DOMAIN loc_edge_ids

\* C12 as stated: whenever a request reads the active set (line 493) or runs
\* the energy model, the active set has been produced by the current or an
\* earlier first_iteration request and the snapshot has one row per active
\* pair; no request sequence, a first request without first_iteration
\* included, makes the server read an uninitialised active set.
C12_ActiveSetInitialisedBeforeUse ==
    /\ pc = "zero" => ~edge_ids_is_None
    /\ pc = "compute" => ~edge_ids_is_None
    /\ C12_SnapshotMatchesActiveSet

============================================================================
